---- MODULE Spec2Model ----
(***************************************************************************)
(* Model of Game2048Viewer (src/env_viewer.py): the matplotlib viewer of   *)
(* the 2048 board.  Half-integer coordinates (tile corners, tick           *)
(* positions) are stored doubled, so -0.5 is -1 and 2.5 is 5.  Scores are  *)
(* stored in halves, so that int(score) is a real truncation.              *)
(***************************************************************************)
EXTENDS Integers, Sequences, FiniteSets, TLC

\* ---------------------------------------------------------------- bounds
\* Largest exponent e of a tile 2^e that the game hands to the viewer.
MaxExp == 15
\* Non-palette values 1..MaxOdd handed to render_tile directly.
MaxOdd == 7
\* Largest row / column index used in a direct render_tile call.
MaxCell == 2
\* Board size of the second viewer (the first has DefaultBoardSize).
MaxBoard == 2
\* Game states are GameState(n, seed) for seed in 0..MaxSeed.
MaxSeed == 1
\* animate is called with 1 state or with MaxStates states.
MaxStates == 2

\* ------------------------------------------------------ program constants
PaletteMax == 16384
TierLarge == 1024
SizeLarge == 30
SizeMedium == 25
SizeSmall == 20
TickCells == 4
DefaultBoardSize == 4

RECURSIVE Pow2(_)
Pow2(e) == IF e = 0 THEN 1 ELSE 2 * Pow2(e - 1)

\* ------------------------------------------------------------- the palette
\* The integer-keyed entries of Game2048Viewer.COLORS.
COLORS ==
  (0 :> "#ccc0b3") @@ (2 :> "#eee4da") @@ (4 :> "#ede0c8") @@ (8 :> "#f59563") @@
  (16 :> "#f59563") @@ (32 :> "#f67c5f") @@ (64 :> "#f65e3b") @@
  (128 :> "#edcf72") @@ (256 :> "#edcc61") @@ (512 :> "#edc651") @@
  (1024 :> "#eec744") @@ (2048 :> "#ecc22e") @@ (4096 :> "#b784ab") @@
  (8192 :> "#b784ab") @@ (16384 :> "#aa60a6")

\* The string-keyed entries of Game2048Viewer.COLORS.
ROLE_COLORS ==
  [other |-> "#f8251d", light_text |-> "#f9f6f2", dark_text |-> "#766d64",
   edge |-> "#bbada0", bg |-> "#faf8ef"]

\* What a failed dictionary lookup COLORS[k] produces.
KeyError == "KeyError"

\* ------------------------------------------------------------------ axes
\* A matplotlib Axes: its tick positions (doubled), whether tick marks and
\* tick labels are shown, the artists added to it in order, and its grid.
EmptyAx ==
  [xticks |-> {}, yticks |-> {}, ticks_shown |-> TRUE, artists |-> <<>>,
   grid |-> "none"]

\* plt.Rectangle([col - 0.5, row - 0.5], 1, 1, color=...): corner doubled.
Rectangle(col, row, color) ==
  [kind |-> "patch", x2 |-> 2 * col - 1, y2 |-> 2 * row - 1, w |-> 1, h |-> 1,
   color |-> color]

add_artist(ax, a) == [ax EXCEPT !.artists = Append(@, a)]

\* str(tile_value): the decimal digits, most significant first.
RECURSIVE str(_)
str(n) == IF n < 10 THEN <<n>> ELSE Append(str(n \div 10), n % 10)

\* ----------------------------------------------------------- render_tile
\* Two lookups that are not the code's, which C1 and C2 must tell from it:
\* with < for <=, and with a default for the missing keys.
PatchColor_Lt(tile_value) ==
  IF tile_value < PaletteMax
  THEN IF tile_value \in DOMAIN COLORS THEN COLORS[tile_value] ELSE KeyError
  ELSE ROLE_COLORS.other

PatchColor_Get(tile_value) ==
  IF tile_value <= PaletteMax /\ tile_value \in DOMAIN COLORS
  THEN COLORS[tile_value]
  ELSE ROLE_COLORS.other

\* Background colour of the tile: the palette lookup raises for a missing key.
PatchColor(tile_value) ==
  IF tile_value <= PaletteMax
  THEN IF tile_value \in DOMAIN COLORS THEN COLORS[tile_value] ELSE KeyError
  ELSE ROLE_COLORS.other

\* The chain with <= 16384 for < 16384, which C3 must tell from the code's.
LabelStyle_Le(tile_value) ==
  IF tile_value \in {2, 4}
  THEN [color |-> ROLE_COLORS.dark_text, size |-> SizeLarge]
  ELSE IF tile_value < TierLarge
  THEN [color |-> ROLE_COLORS.light_text, size |-> SizeLarge]
  ELSE IF tile_value >= TierLarge /\ tile_value <= PaletteMax
  THEN [color |-> ROLE_COLORS.light_text, size |-> SizeMedium]
  ELSE [color |-> ROLE_COLORS.light_text, size |-> SizeSmall]

\* Colour and size of the label, chosen by the if / elif chain.
LabelStyle(tile_value) ==
  IF tile_value \in {2, 4}
  THEN [color |-> ROLE_COLORS.dark_text, size |-> SizeLarge]
  ELSE IF tile_value < TierLarge
  THEN [color |-> ROLE_COLORS.light_text, size |-> SizeLarge]
  ELSE IF tile_value >= TierLarge /\ tile_value < PaletteMax
  THEN [color |-> ROLE_COLORS.light_text, size |-> SizeMedium]
  ELSE [color |-> ROLE_COLORS.light_text, size |-> SizeSmall]

\* ax.text(col, row, str(tile_value), color, ha="center", va="center", ...).
Text(col, row, tile_value, style) ==
  [kind |-> "text", x2 |-> 2 * col, y2 |-> 2 * row, text |-> str(tile_value),
   color |-> style.color, size |-> style.size, ha |-> "center",
   va |-> "center", weight |-> "bold"]

\* A render_tile that labels the empty tile too, which C4 must tell from
\* the code's.
render_tile_LabelAll(tile_value, ax, row, col) ==
  IF PatchColor(tile_value) = KeyError
  THEN [raised |-> TRUE, ax |-> ax]
  ELSE [raised |-> FALSE,
        ax |-> add_artist(add_artist(ax, Rectangle(col, row, PatchColor(tile_value))),
                          Text(col, row, tile_value, LabelStyle(tile_value)))]

\* render_tile: the patch, then the label unless the tile is empty.  A
\* KeyError leaves the axes as they were and propagates to the caller.
render_tile(tile_value, ax, row, col) ==
  IF PatchColor(tile_value) = KeyError
  THEN [raised |-> TRUE, ax |-> ax]
  ELSE [raised |-> FALSE,
        ax |-> IF tile_value # 0
               THEN add_artist(add_artist(ax, Rectangle(col, row, PatchColor(tile_value))),
                               Text(col, row, tile_value, LabelStyle(tile_value)))
               ELSE add_artist(ax, Rectangle(col, row, PatchColor(tile_value)))]

\* ------------------------------------------------------------- draw_board
\* jnp.arange(start, stop, step) on doubled values: start, start + step, ...
\* up to but excluding stop.
arange(start2, stop2, step2) ==
  {x \in start2..(stop2 - 1) : (x - start2) % step2 = 0}

\* A clear that clears nothing: what C9 must tell from ax.clear().
keep(ax) == ax

\* ax.clear(): no artists, default ticks, no grid.
clear(ax) == EmptyAx

\* The double loop over range(board_size) x range(board_size), row-major
\* from cell k on; a KeyError in render_tile ends it.
RECURSIVE render_cells(_, _, _, _)
RECURSIVE next_cell(_, _, _, _)
render_cells(ax, board, board_size, k) ==
  IF k >= board_size * board_size
  THEN [raised |-> FALSE, ax |-> ax]
  ELSE next_cell(render_tile(board[k \div board_size][k % board_size], ax,
                             k \div board_size, k % board_size),
                 board, board_size, k)

\* After the tile of cell k: the exception propagates, or the loop goes on.
next_cell(r, board, board_size, k) ==
  IF r.raised THEN r ELSE render_cells(r.ax, board, board_size, k + 1)

\* After the loop: ax.imshow(board) and ax.grid(color=COLORS["edge"], ...),
\* unless a tile has raised.
finish_board(r, board) ==
  IF r.raised
  THEN r
  ELSE [raised |-> FALSE,
        ax |-> [add_artist(r.ax, [kind |-> "image", data |-> board])
                  EXCEPT !.grid = ROLE_COLORS.edge]]

\* draw_board: clear, ticks at arange(-0.5, 4 - 1, 1), hidden tick marks and
\* labels, one render_tile per cell, the board as an image, the grid.
draw_board(ax, state, board_size) ==
  finish_board(
    render_cells([clear(ax) EXCEPT !.xticks = arange(-1, 2 * (TickCells - 1), 2),
                                   !.yticks = arange(-1, 2 * (TickCells - 1), 2),
                                   !.ticks_shown = FALSE],
                 state.board, board_size, 0),
    state.board)

\* int(state.score) of a non-negative score held in halves.
IntScore(score2) == score2 \div 2

\* f"2048    Score: {n}"
Title(n) == [text |-> "2048    Score: ", score |-> n]

\* --------------------------------------------------------------- inputs
\* Tile values the game produces: 0 (empty) and 2^e for e in 1..MaxExp.
TileOfExp(e) == IF e = 0 THEN 0 ELSE Pow2(e)

\* The game states handed to the viewers: for each board size in use and
\* each state number, an n x n board of game tiles and a score (in halves).
GameStates ==
  [n \in {DefaultBoardSize, MaxBoard} |-> [seed \in 0..MaxSeed |->
     [board |-> [r \in 0..(n - 1) |-> [c \in 0..(n - 1) |->
                   TileOfExp(((r * n + c) * 3 + seed * 5) % (MaxExp + 1))]],
      score2 |-> 3 * seed + 2]]]

\* The game state numbered seed with an n x n board.
GameState(n, seed) == GameStates[n][seed]

\* The states handed to animate, as state numbers: len of them from start.
StateSeq(start, len) == [i \in 1..len |-> (start + i - 1) % (MaxSeed + 1)]

Viewers == {1, 2}
Names == {"2048", "alt"}
Paths == {"./2048.png", "./2048.gif"}

\* Values handed to render_tile directly: the game's tiles, the small
\* non-palette values and the neighbours of the two thresholds.
TileInputs ==
  {TileOfExp(e) : e \in 0..MaxExp} \cup (1..MaxOdd)
  \cup {TierLarge - 1, TierLarge + 1, PaletteMax - 1, PaletteMax + 1}

\* ------------------------------------------------------------------ state
VARIABLES
  viewer,   \* viewer[v]: _name, _board_size, _animation of each Game2048Viewer
  figs,     \* pyplot's registry of open figures: figure object id -> figure
  files,    \* the files on disk: path -> content
  tile      \* the most recent direct render_tile call and its result

vars == <<viewer, figs, files, tile>>

\* self._animation: None, a running FuncAnimation, or one whose figure was
\* closed (its timer is stopped for good, so what it holds no longer matters).
NoAnimation == [fig |-> 0, frames |-> 0, states |-> <<>>, next |-> 0, is |-> "None"]
StoppedAnimation ==
  [fig |-> 0, frames |-> 0, states |-> <<>>, next |-> 0, is |-> "stopped"]
NoFile == [kind |-> "none", frames |-> <<>>]
NoTile == [called |-> FALSE, v |-> 0, row |-> 0, col |-> 0, raised |-> FALSE,
           before |-> EmptyAx, ax |-> EmptyAx]

\* __init__: viewer 1 with the default arguments, viewer 2 with a name that
\* is the same or another and a board of its own size.
Init ==
  /\ \E nm \in Names :
       viewer = (1 :> [name |-> "2048", board_size |-> DefaultBoardSize,
                       animation |-> NoAnimation])
             @@ (2 :> [name |-> nm, board_size |-> MaxBoard,
                       animation |-> NoAnimation])
  /\ figs = <<>>
  /\ files = [p \in Paths |-> NoFile]
  /\ tile = NoTile

\* -------------------------------------------------------------- get_fig_ax
NoTitle == [text |-> "", score |-> 0]

\* plt.figure(name, figsize=(6.0, 6.0), facecolor=COLORS["bg"]) and
\* fig.add_subplot(): tight_layout, axis("off") and show() change the layout
\* and the display only.  The figure is taken to have the one axes that
\* add_subplot returns, so that fig.get_axes()[0] is that axes again.
NewFigure(name) ==
  [label |-> name, figsize |-> <<6, 6>>, facecolor |-> ROLE_COLORS.bg,
   suptitle |-> NoTitle, ax |-> EmptyAx]

\* plt.fignum_exists(name): some open figure carries the label.
fignum_exists(name) == \E f \in DOMAIN figs : figs[f].label = name

\* The identity of a new figure object: the first one no open figure has.
NewId == CHOOSE i \in 1..(Cardinality(DOMAIN figs) + 1) :
           /\ i \notin DOMAIN figs
           /\ \A j \in 1..(i - 1) : j \in DOMAIN figs

\* A get_fig_ax that never looks the name up, which C5 must tell from the
\* code's.
get_fig_ax_AlwaysNew(name) ==
  [fig |-> NewId, figs |-> figs @@ (NewId :> NewFigure(name))]

\* get_fig_ax: the open figure labelled name, or a new one registered under
\* it.  The result is the figure and the registry after the call.
get_fig_ax(name) ==
  IF fignum_exists(name)
  THEN [fig |-> CHOOSE f \in DOMAIN figs : figs[f].label = name, figs |-> figs]
  ELSE [fig |-> NewId, figs |-> figs @@ (NewId :> NewFigure(name))]

\* What is written to disk of a figure: its title and its axes.
Snapshot(fig) == [suptitle |-> fig.suptitle, ax |-> fig.ax]

\* A savefig that ignores the flag, which C7 must tell from the code's.
savefig_Always(fs, save, path, fig) ==
  [fs EXCEPT ![path] = [kind |-> "image", frames |-> <<Snapshot(fig)>>]]

\* if save: fig.savefig(path, ...)
savefig(fs, save, path, fig) ==
  IF save
  THEN [fs EXCEPT ![path] = [kind |-> "image", frames |-> <<Snapshot(fig)>>]]
  ELSE fs

\* ------------------------------------------------------------------ render
\* render: the figure, the title, the board, the file; _display_human
\* redraws the canvas and changes none of the variables.
render(v, seed, save, path) ==
  \E g \in {get_fig_ax(viewer[v].name)},
     state \in {GameState(viewer[v].board_size, seed)} :
    \E d \in {draw_board(g.figs[g.fig].ax, state, viewer[v].board_size)} :
      LET f2 == [g.figs[g.fig] EXCEPT !.suptitle = Title(IntScore(state.score2)),
                                      !.ax = d.ax]
      IN  /\ figs' = [g.figs EXCEPT ![g.fig] = f2]
          /\ files' = IF d.raised THEN files ELSE savefig(files, save, path, f2)
          /\ UNCHANGED <<viewer, tile>>

\* ----------------------------------------------------------------- animate
\* animate_state: the frame callback, applied to the captured figure.
\* The figure after the callback's two statements; when draw_board raises
\* the title stays.
drawn_frame(fig, d, state) ==
  [fig EXCEPT !.ax = d.ax,
              !.suptitle = IF d.raised THEN @ ELSE Title(IntScore(state.score2))]

animate_state(fig, states, state_index, board_size) ==
  drawn_frame(fig,
              draw_board(fig.ax, GameState(board_size, states[state_index + 1]),
                         board_size),
              GameState(board_size, states[state_index + 1]))

\* An animation one frame short, which C6 must tell from the code's.
FuncAnimation_OneLess(fig, states) ==
  [fig |-> fig, frames |-> Len(states) - 1, states |-> states, next |-> 0,
   is |-> "running"]

\* matplotlib.animation.FuncAnimation(fig, animate_state, frames=len(states)):
\* the handle holds the figure, the frame count, the captured states and
\* the index of the frame the driver draws next.
FuncAnimation(fig, states) ==
  [fig |-> fig, frames |-> Len(states), states |-> states, next |-> 0,
   is |-> "running"]

\* self._animation.save(path): the driver calls the callback for the frames
\* i, i + 1, ..., frames - 1 in order and grabs the figure after each.
RECURSIVE play(_, _, _, _)
RECURSIVE grab(_, _, _, _)
play(p, anim, board_size, i) ==
  IF i >= anim.frames
  THEN p
  ELSE grab(animate_state(p.fig, anim.states, i, board_size), p.grabbed, anim,
            <<board_size, i>>)

\* The writer grabs the figure just drawn, and the next frame follows.
grab(f, grabbed, anim, at) ==
  play([fig |-> f, grabbed |-> Append(grabbed, Snapshot(f))], anim, at[1], at[2] + 1)

\* if save: self._animation.save(path)
save_animation(fs, save, path, grabbed) ==
  IF save
  THEN [fs EXCEPT ![path] = [kind |-> "animation", frames |-> grabbed]]
  ELSE fs

animate(v, states, save, path) ==
  \E g \in {get_fig_ax(viewer[v].name)} :
    \E f1 \in {[g.figs[g.fig] EXCEPT !.suptitle = Title(0)]},
       anim \in {FuncAnimation(g.fig, states)} :
      \E p \in {IF save
                 THEN play([fig |-> f1, grabbed |-> <<>>], anim, viewer[v].board_size, 0)
                 ELSE [fig |-> f1, grabbed |-> <<>>]} :
        /\ viewer' = [viewer EXCEPT ![v].animation = anim]
        /\ figs' = [g.figs EXCEPT ![g.fig] = p.fig]
        /\ files' = save_animation(files, save, path, p.grabbed)
        /\ UNCHANGED tile

\* The animation driver's timer fires: the next frame of viewer v's
\* animation is drawn, while the animation's figure is open.
animation_step(v) ==
  LET a == viewer[v].animation
  IN  /\ a.is = "running"
      /\ a.fig \in DOMAIN figs
      /\ a.frames > 0
      /\ figs' = [figs EXCEPT ![a.fig] =
                    animate_state(@, a.states, a.next, viewer[v].board_size)]
      /\ viewer' = [viewer EXCEPT ![v].animation.next = (a.next + 1) % a.frames]
      /\ UNCHANGED <<files, tile>>

\* A direct call of get_fig_ax.
call_get_fig_ax(v) ==
  /\ figs' = get_fig_ax(viewer[v].name).figs
  /\ UNCHANGED <<viewer, files, tile>>

\* ------------------------------------------------------------------- close
\* Closing a figure stops the timers of the animations that run on it.
stop_animations(closed) ==
  [w \in Viewers |->
     IF viewer[w].animation.is = "running" /\ viewer[w].animation.fig \in closed
     THEN [viewer[w] EXCEPT !.animation = StoppedAnimation]
     ELSE viewer[w]]

\* A close that closes every figure, which C10 must tell from the code's.
close_All(v) ==
  /\ figs' = <<>>
  /\ viewer' = stop_animations(DOMAIN figs)
  /\ UNCHANGED <<files, tile>>

\* plt.close(self._name): the figure labelled name leaves the registry.
close(v) ==
  LET closed == {f \in DOMAIN figs : figs[f].label = viewer[v].name}
  IN  /\ figs' = [f \in DOMAIN figs \ closed |-> figs[f]]
      /\ viewer' = stop_animations(closed)
      /\ UNCHANGED <<files, tile>>

\* The calls that save nothing: save=False and the default path of render.
NoSave == {<<FALSE, "./2048.png">>}

\* The save arguments of a call, the flag and the path: not saving, and
\* saving at either path.
SaveArgs == NoSave \cup {<<TRUE, path>> : path \in Paths}

\* Both viewers call render, animate, get_fig_ax and close without saving,
\* and the driver plays the frames of their animations.
Next ==
  \/ \E v \in Viewers, seed \in 0..MaxSeed, sp \in NoSave :
       render(v, seed, sp[1], sp[2])
  \/ \E v \in Viewers, start \in 0..MaxSeed, len \in {1, MaxStates}, sp \in NoSave :
       animate(v, StateSeq(start, len), sp[1], sp[2])
  \/ \E v \in Viewers : animation_step(v)
  \/ \E v \in Viewers : call_get_fig_ax(v)
  \/ \E v \in Viewers : close(v)

Spec == Init /\ [][Next]_vars

\* Viewer 2, under a name of its own, calls render and animate with every
\* save flag and path, and the driver plays the frames of its animation.
NextSave ==
  \/ \E seed \in 0..MaxSeed, sp \in SaveArgs : render(2, seed, sp[1], sp[2])
  \/ \E start \in 0..MaxSeed, len \in {1, MaxStates}, sp \in SaveArgs :
       animate(2, StateSeq(start, len), sp[1], sp[2])
  \/ animation_step(2)

InitSave == Init /\ viewer[2].name = "alt"

SpecSave == InitSave /\ [][NextSave]_vars

\* ------------------------------------------------- render_tile on its own
\* A direct call render_tile(tile_value, ax, row, col) on axes that are
\* empty or already hold a patch.
call_render_tile(tile_value, ax, row, col) ==
  /\ LET r == render_tile(tile_value, ax, row, col)
     IN  tile' = [called |-> TRUE, v |-> tile_value, row |-> row, col |-> col,
                  raised |-> r.raised, before |-> ax, ax |-> r.ax]
  /\ UNCHANGED <<viewer, figs, files>>

NextTile ==
  \E tile_value \in TileInputs, row \in 0..MaxCell, col \in 0..MaxCell,
     ax \in {EmptyAx, add_artist(EmptyAx, Rectangle(0, 0, COLORS[0]))} :
    call_render_tile(tile_value, ax, row, col)

SpecTile == Init /\ [][NextTile]_vars

\* ======================================================= the properties
\* The keys 0, 2, 4, ..., 16384 of the palette.
PaletteKeys == {t \in {TileOfExp(e) : e \in 0..MaxExp} : t <= PaletteMax}

Patches(artists) == SelectSeq(artists, LAMBDA a : a.kind = "patch")
Texts(artists) == SelectSeq(artists, LAMBDA a : a.kind = "text")
Images(artists) == SelectSeq(artists, LAMBDA a : a.kind = "image")

\* The artists the direct render_tile call added to its axes.
Added == SubSeq(tile.ax.artists, Len(tile.before.artists) + 1, Len(tile.ax.artists))

\* The call drew exactly one patch, the unit square of cell (row, col), in
\* the given colour.
DrewPatch(color) ==
  /\ ~tile.raised
  /\ Len(Patches(Added)) = 1
  /\ Patches(Added)[1].color = color
  /\ Patches(Added)[1].x2 = 2 * tile.col - 1
  /\ Patches(Added)[1].y2 = 2 * tile.row - 1
  /\ Patches(Added)[1].w = 1 /\ Patches(Added)[1].h = 1

RECURSIVE DigitsValue(_)
DigitsValue(ds) ==
  IF Len(ds) = 0 THEN 0
  ELSE 10 * DigitsValue(SubSeq(ds, 1, Len(ds) - 1)) + ds[Len(ds)]

\* ds is the decimal string of n: digits, no leading zero, of value n.
IsDecimalOf(ds, n) ==
  /\ Len(ds) >= 1
  /\ \A i \in 1..Len(ds) : ds[i] \in 0..9
  /\ (Len(ds) > 1 => ds[1] # 0)
  /\ DigitsValue(ds) = n

\* C1: a palette key 0, 2, 4, ..., 16384 is drawn as exactly one patch in
\* its palette colour COLORS[v], a value above 16384 as exactly one patch in
\* the overflow colour.
C1_PaletteColour ==
  tile.called =>
    /\ (tile.v \in PaletteKeys => DrewPatch(COLORS[tile.v]))
    /\ (tile.v > PaletteMax => DrewPatch(ROLE_COLORS.other))

\* C1 witness: the largest palette key, 16384, drawn in its own colour.
C1_Witness ==
  /\ tile.called /\ tile.v = PaletteMax
  /\ DrewPatch(COLORS[PaletteMax])

\* C2 as claimed: every value that is no palette key, the ones below 16384
\* included, is drawn without an error in the overflow colour.
C2_NeverRaises ==
  (tile.called /\ tile.v \notin PaletteKeys) => DrewPatch(ROLE_COLORS.other)

\* C2 amended: a value that is no palette key is drawn in the overflow
\* colour when it is above 16384; below 16384 the palette lookup raises
\* KeyError and nothing is drawn.
C2_RaisesBelowMax ==
  (tile.called /\ tile.v \notin PaletteKeys) =>
    IF tile.v > PaletteMax
    THEN DrewPatch(ROLE_COLORS.other)
    ELSE tile.raised /\ tile.ax = tile.before

\* C2 witness: render_tile(3, ...) has raised.
C2_Witness ==
  /\ tile.called /\ tile.v = 3
  /\ tile.raised /\ Len(Added) = 0

\* The four label tiers of the claim C3, and the tiers a value falls in.
TierStyle ==
  [dark_large |-> [color |-> ROLE_COLORS.dark_text, size |-> SizeLarge],
   light_large |-> [color |-> ROLE_COLORS.light_text, size |-> SizeLarge],
   light_medium |-> [color |-> ROLE_COLORS.light_text, size |-> SizeMedium],
   light_small |-> [color |-> ROLE_COLORS.light_text, size |-> SizeSmall]]

TiersOf(n) ==
  {t \in DOMAIN TierStyle :
     \/ t = "dark_large" /\ n \in {2, 4}
     \/ t = "light_large" /\ 0 < n /\ n < TierLarge /\ n \notin {2, 4}
     \/ t = "light_medium" /\ TierLarge <= n /\ n < PaletteMax
     \/ t = "light_small" /\ n >= PaletteMax}

\* The call drew exactly one label, in the style of the one tier of its value.
DrewTierLabel ==
  /\ Cardinality(TiersOf(tile.v)) = 1
  /\ ~tile.raised
  /\ Len(Texts(Added)) = 1
  /\ \A t \in TiersOf(tile.v) :
       /\ Texts(Added)[1].color = TierStyle[t].color
       /\ Texts(Added)[1].size = TierStyle[t].size

\* C3 as claimed: every value of [0, infinity) is in exactly one of the four
\* tiers and gets its label in that tier's colour and size.
C3_TiersEverywhere == tile.called => DrewTierLabel

\* C3 amended: every value render_tile labels (a non-zero palette key or a
\* value above 16384) is in exactly one of the four tiers and gets its label
\* in that tier's colour and size; 0 is in none of them and gets no label.
C3_TiersWhereLabelled ==
  tile.called =>
    /\ (tile.v # 0 /\ (tile.v \in PaletteKeys \/ tile.v > PaletteMax)
          => DrewTierLabel)
    /\ (tile.v = 0 => TiersOf(tile.v) = {} /\ ~tile.raised /\ Len(Texts(Added)) = 0)

\* C3 witness: 16384, the first value of the smallest tier, labelled at size 20.
C3_Witness ==
  /\ tile.called /\ tile.v = PaletteMax /\ ~tile.raised
  /\ Len(Texts(Added)) = 1
  /\ Texts(Added)[1].size = SizeSmall

\* The call drew exactly one label: the decimal string of the value,
\* centred on (col, row).
DrewLabel ==
  /\ ~tile.raised
  /\ Len(Texts(Added)) = 1
  /\ IsDecimalOf(Texts(Added)[1].text, tile.v)
  /\ Texts(Added)[1].x2 = 2 * tile.col /\ Texts(Added)[1].y2 = 2 * tile.row
  /\ Texts(Added)[1].ha = "center" /\ Texts(Added)[1].va = "center"

\* The call drew a patch and no label.
DrewNoLabel ==
  /\ ~tile.raised
  /\ Len(Patches(Added)) = 1
  /\ Len(Texts(Added)) = 0

Labelled(fs, name) == {f \in DOMAIN fs : fs[f].label = name}

\* The step is render(v, seed, save, path).  A render leaves the viewers as
\* they were and the figure of the viewer's name titled with the score of
\* the state; those tests come first, so that the action is evaluated for
\* the steps that can be it.
Rendered(v, seed, save, path) ==
  /\ viewer' = viewer
  /\ \E f \in Labelled(figs', viewer[v].name) :
       figs'[f].suptitle =
         Title(IntScore(GameState(viewer[v].board_size, seed).score2))
  /\ render(v, seed, save, path)

\* The step is animate(v, states, save, path).  An animate leaves the viewer
\* with a handle on states at frame 0, and the figure of the viewer's name
\* titled with score 0 or, the frames played for saving, with the score of
\* the last state; those tests come first.
Animated(v, states, save, path) ==
  /\ viewer'[v].animation.is = "running"
  /\ viewer'[v].animation.states = states
  /\ viewer'[v].animation.next = 0
  /\ \E f \in Labelled(figs', viewer[v].name) :
       figs'[f].suptitle =
         IF save
         THEN Title(IntScore(GameState(viewer[v].board_size,
                                       states[Len(states)]).score2))
         ELSE Title(0)
  /\ animate(v, states, save, path)

\* The step is animation_step(v).  A frame callback leaves the files as they
\* were and only moves the handle of v to its next frame; those tests come
\* first.
Stepped(v) ==
  /\ files' = files
  /\ viewer[v].animation.is = "running"
  /\ viewer' = [viewer EXCEPT ![v].animation.next =
                  (viewer[v].animation.next + 1) % Len(viewer[v].animation.states)]
  /\ animation_step(v)

\* C5: no name ever has two figures; no step adds a figure under a name that
\* has one, or puts another in its place; a running animation runs on the
\* figure of its viewer's name; get_fig_ax leaves exactly one figure under
\* the name, the one that was there when there was one.
C5_SurfaceReuse ==
  /\ [](\A name \in Names : Cardinality(Labelled(figs, name)) <= 1)
  /\ [](\A v \in Viewers :
          viewer[v].animation.is = "running" =>
            Labelled(figs, viewer[v].name) = {viewer[v].animation.fig})
  /\ [][\A name \in Names :
          Labelled(figs, name) # {} =>
            Labelled(figs', name) \subseteq Labelled(figs, name)]_vars
  /\ [][\A v \in Viewers :
          call_get_fig_ax(v) =>
            /\ Cardinality(Labelled(figs', viewer[v].name)) = 1
            /\ (Labelled(figs, viewer[v].name) # {} => figs' = figs)]_vars

\* C5 witness: two viewers of one name have both called animate, and their
\* animations run on the one figure of the registry, which has been drawn on.
C5_Witness ==
  /\ viewer[1].name = viewer[2].name
  /\ viewer[1].animation.is = "running" /\ viewer[2].animation.is = "running"
  /\ viewer[1].animation.fig = viewer[2].animation.fig
  /\ DOMAIN figs = {viewer[1].animation.fig}
  /\ Len(figs[viewer[1].animation.fig].ax.artists) > 0

\* The axes show the n x n board and nothing else: one patch per cell in
\* the colour of its value, one label per non-empty cell reading its value,
\* and, drawn last, the image of the board.
ShowsBoard(ps, ts, ims, total, board, n) ==
  /\ Len(ims) = 1
  /\ ims[1].data = board
  /\ total = Len(ps) + Len(ts) + 1
  \* every patch is the square of a cell, in the colour of the cell's value,
  \* and the n * n patches are the squares of n * n different cells
  /\ Len(ps) = n * n
  /\ Cardinality({<<ps[i].x2, ps[i].y2>> : i \in 1..Len(ps)}) = n * n
  /\ \A i \in 1..Len(ps) :
       /\ (ps[i].x2 + 1) % 2 = 0 /\ (ps[i].x2 + 1) \div 2 \in 0..(n - 1)
       /\ (ps[i].y2 + 1) % 2 = 0 /\ (ps[i].y2 + 1) \div 2 \in 0..(n - 1)
       /\ ps[i].color =
            IF board[(ps[i].y2 + 1) \div 2][(ps[i].x2 + 1) \div 2] > PaletteMax
            THEN ROLE_COLORS.other
            ELSE COLORS[board[(ps[i].y2 + 1) \div 2][(ps[i].x2 + 1) \div 2]]
  \* every label is at the centre of a non-empty cell and reads its value,
  \* and the labels are those of all the non-empty cells
  /\ Len(ts) = Cardinality({rc \in (0..(n - 1)) \X (0..(n - 1)) :
                              board[rc[1]][rc[2]] # 0})
  /\ Cardinality({<<ts[i].x2, ts[i].y2>> : i \in 1..Len(ts)}) = Len(ts)
  /\ \A i \in 1..Len(ts) :
       /\ ts[i].x2 % 2 = 0 /\ ts[i].x2 \div 2 \in 0..(n - 1)
       /\ ts[i].y2 % 2 = 0 /\ ts[i].y2 \div 2 \in 0..(n - 1)
       /\ board[ts[i].y2 \div 2][ts[i].x2 \div 2] # 0
       /\ IsDecimalOf(ts[i].text, board[ts[i].y2 \div 2][ts[i].x2 \div 2])

Shows(ax, board, n) ==
  /\ Len(ax.artists) > 0
  /\ ax.artists[Len(ax.artists)].kind = "image"
  /\ ax.artists[Len(ax.artists)].data = board
  /\ \E ps \in {Patches(ax.artists)}, ts \in {Texts(ax.artists)},
        ims \in {Images(ax.artists)} :
       ShowsBoard(ps, ts, ims, Len(ax.artists), board, n)

\* The boundaries of n columns (rows), doubled: -0.5, 0.5, ..., n - 0.5, and
\* those of them that separate two adjacent columns (rows).
CellEdges(n) == {2 * k - 1 : k \in 0..n}
InnerEdges(n) == {2 * k - 1 : k \in 1..(n - 1)}

\* C8 as claimed: whatever the board size n, the ticks draw_board sets are
\* boundaries of the n columns (rows), and every boundary between two
\* adjacent columns (rows) is among them.
C8_TicksAtCellBoundaries ==
  \A f \in DOMAIN figs :
    \A i \in 1..Len(Images(figs[f].ax.artists)) :
      LET n == Cardinality(DOMAIN Images(figs[f].ax.artists)[i].data)
      IN  /\ InnerEdges(n) \subseteq figs[f].ax.xticks
          /\ figs[f].ax.xticks \subseteq CellEdges(n)
          /\ InnerEdges(n) \subseteq figs[f].ax.yticks
          /\ figs[f].ax.yticks \subseteq CellEdges(n)

\* The axes show exactly one board: the one handed to imshow, whose image
\* is the last thing drawn on them.
ShowsOneBoard(ax) ==
  /\ Len(ax.artists) > 0
  /\ ax.artists[Len(ax.artists)].kind = "image"
  /\ Shows(ax, ax.artists[Len(ax.artists)].data,
           Cardinality(DOMAIN ax.artists[Len(ax.artists)].data))

\* The board last drawn on the axes is board.
LastDrawn(ax, board) ==
  /\ Len(ax.artists) > 0
  /\ ax.artists[Len(ax.artists)].kind = "image"
  /\ ax.artists[Len(ax.artists)].data = board

\* C9: axes that have been drawn on show, at every moment, exactly one
\* board, the one last drawn (one patch per cell with the cell's value, and
\* no patch or label of another state); after render that board is the
\* board of the state rendered, and after a frame callback it is the board
\* of the state of the callback's index.
C9_LatestStateOnly ==
  /\ [](\A f \in DOMAIN figs :
          Len(figs[f].ax.artists) > 0 => ShowsOneBoard(figs[f].ax))
  /\ [][\A v \in Viewers :
          /\ \A seed \in 0..MaxSeed, sp \in NoSave :
               \/ /\ Labelled(figs', viewer[v].name) # {}
                  /\ \A f \in Labelled(figs', viewer[v].name) :
                       LastDrawn(figs'[f].ax,
                                 GameState(viewer[v].board_size, seed).board)
               \/ ~Rendered(v, seed, sp[1], sp[2])
          /\ Stepped(v) =>
               LastDrawn(figs'[viewer[v].animation.fig].ax,
                         GameState(viewer[v].board_size,
                                   viewer[v].animation.states[viewer[v].animation.next + 1]).board)]_vars

\* C9 witness: an animation of MaxStates frames has gone round once, and
\* its figure shows the last of its states.
C9_Witness ==
  \E v \in Viewers :
    /\ viewer[v].animation.is = "running"
    /\ viewer[v].animation.frames = MaxStates
    /\ viewer[v].animation.next = 0
    /\ viewer[v].animation.fig \in DOMAIN figs
    /\ Shows(figs[viewer[v].animation.fig].ax,
             GameState(viewer[v].board_size, viewer[v].animation.states[MaxStates]).board,
             viewer[v].board_size)

\* C10: close leaves no figure under the viewer's name and leaves the
\* figures of the other names as they were; the figure a later step
\* registers under the name is a new one, and an empty one when the step is
\* get_fig_ax.
C10_CloseReleases ==
  /\ [][\A v \in Viewers :
          close(v) =>
            /\ Labelled(figs', viewer[v].name) = {}
            /\ DOMAIN figs' = DOMAIN figs \ Labelled(figs, viewer[v].name)
            /\ \A f \in DOMAIN figs' : figs'[f] = figs[f]]_vars
  /\ [][\A name \in Names :
          (Labelled(figs, name) = {} /\ Labelled(figs', name) # {}) =>
            /\ Cardinality(Labelled(figs', name)) = 1
            /\ Labelled(figs', name) \cap DOMAIN figs = {}
            /\ \A f \in DOMAIN figs : f \in DOMAIN figs' /\ figs'[f] = figs[f]]_vars
  /\ [][\A v \in Viewers :
          (Labelled(figs, viewer[v].name) = {} /\ call_get_fig_ax(v)) =>
            \A f \in Labelled(figs', viewer[v].name) :
              figs'[f] = NewFigure(viewer[v].name)]_vars

\* C10 witness: the figure of "2048" was closed under a running animation
\* while the figure of the other name stays open with its board.
C10_Witness ==
  /\ Labelled(figs, "2048") = {}
  /\ viewer[1].animation.is = "stopped"
  /\ \E f \in Labelled(figs, "alt") : Len(figs[f].ax.artists) > 0

\* The frame is of state: the board last drawn on it is the state's, under
\* the title of the state's score as an integer.
FrameOf(frame, state) ==
  /\ LastDrawn(frame.ax, state.board)
  /\ frame.suptitle.text = "2048    Score: "
  /\ 2 * frame.suptitle.score <= state.score2
  /\ state.score2 < 2 * frame.suptitle.score + 2

\* C6: animate with N states creates an animation of N frames; saved, the
\* file holds N frames and frame i is of the i-th state, each frame showing
\* exactly one board; a frame callback draws the state of its index and the
\* driver moves on to the next index.
C6_FramesInOrder ==
  /\ [](\A p \in Paths : \A i \in 1..Len(files[p].frames) :
          ShowsOneBoard(files[p].frames[i].ax))
  /\ [][\A v \in Viewers :
          /\ \A start \in 0..MaxSeed, len \in {1, MaxStates}, sp \in SaveArgs :
               \/ /\ viewer'[v].animation.frames = len
                  /\ sp[1] =>
                       /\ files'[sp[2]].kind = "animation"
                       /\ Len(files'[sp[2]].frames) = len
                       /\ \A i \in 1..len :
                            FrameOf(files'[sp[2]].frames[i],
                                    GameState(viewer[v].board_size,
                                              StateSeq(start, len)[i]))
               \/ ~Animated(v, StateSeq(start, len), sp[1], sp[2])
          /\ Stepped(v) =>
               /\ FrameOf(Snapshot(figs'[viewer[v].animation.fig]),
                          GameState(viewer[v].board_size,
                                    viewer[v].animation.states[viewer[v].animation.next + 1]))
               /\ viewer'[v].animation.next =
                    (viewer[v].animation.next + 1) % Len(viewer[v].animation.states)]_vars

\* C6 witness: a saved animation of MaxStates frames whose frames differ.
C6_Witness ==
  \E p \in Paths :
    /\ files[p].kind = "animation"
    /\ Len(files[p].frames) = MaxStates
    /\ files[p].frames[1] # files[p].frames[MaxStates]

\* C7: render and animate with save=true leave a file of theirs at the
\* given path and the other files as they were; with save=false they leave
\* every file as it was.
C7_SaveFlag ==
  [][\A v \in Viewers, sp \in SaveArgs :
       /\ \A seed \in 0..MaxSeed :
            \/ IF sp[1]
               THEN /\ files'[sp[2]].kind = "image"
                    /\ \A q \in Paths \ {sp[2]} : files'[q] = files[q]
               ELSE files' = files
            \/ ~Rendered(v, seed, sp[1], sp[2])
       /\ \A start \in 0..MaxSeed, len \in {1, MaxStates} :
            \/ IF sp[1]
               THEN /\ files'[sp[2]].kind = "animation"
                    /\ \A q \in Paths \ {sp[2]} : files'[q] = files[q]
               ELSE files' = files
            \/ ~Animated(v, StateSeq(start, len), sp[1], sp[2])]_vars

\* C7 witness: an image was saved at one path only, and the figure has been
\* drawn again since without the file changing.
C7_Witness ==
  /\ files["./2048.png"].kind = "image"
  /\ files["./2048.gif"].kind = "none"
  /\ \E f \in DOMAIN figs :
       /\ Len(figs[f].ax.artists) > 0
       /\ figs[f].ax # files["./2048.png"].frames[1].ax

====
